---- MODULE Spec2Model ----
(***************************************************************************)
(* Model of the LinkedIn Sales Navigator -> Google Sheets workflow:        *)
(*   google_spread_sheet_queue.py  the upload queue and its worker thread  *)
(*   google_spread_sheet.py        the spreadsheet sink                    *)
(*   apify_api.py                  the scrape source (actor run + polling) *)
(*   helper_functions.py           the row normalizer and the drivers      *)
(*                                                                         *)
(* A Python str is modelled as a sequence of tokens: the characters the    *)
(* code inspects ("/", ":", "?", "#", " ") are tokens of their own, every  *)
(* other token is a run of characters the code never looks inside, except  *)
(* for the substring test on the host, see HasLinkedin.  "" is << >>.      *)
(***************************************************************************)
EXTENDS Integers, Sequences, FiniteSets, TLC

VARIABLES
    \* google_sheets_queue object
    items, is_dequeue_safe, sheet_name,
    \* the normalized batches the callers upload, in the order of the enqueue calls
    csv_data,
    \* producer threads inside enqueue, worker threads inside worker
    prodPc, prodItem, wPc, wItem,
    \* history: ids given to enqueued batches, the order of the appends, the
    \* entries passed to the sink in call order, the ids whose call raised, the
    \* number of enqueue calls begun when the first call raised (-1: none yet)
    nextId, appended, handed, failed, failSeen,
    \* the remote spreadsheet, the gspread calls made on it, and the sink calls
    \* whose body ran (tab, whether the tab existed before, data row)
    sheet, apiLog, sinkCalls,
    \* scrape_industry driver
    scrapePc,
    \* single-threaded caller of the queue's methods
    lastOp, ret,
    \* run_sales_nav_scraper
    runPc, env, remote, clock, status, params, dataset, fetched, outcome,
    \* the row normalizer: the raw record, and what each converter returned for it
    record, companyOut, personOut

queueVars == <<items, is_dequeue_safe, sheet_name, csv_data, prodPc, prodItem, wPc, wItem,
               nextId, appended, handed, failed, failSeen>>
sinkVars == <<sheet, apiLog, sinkCalls>>
callerVars == <<lastOp, ret>>
scraperVars == <<runPc, env, remote, clock, status, params, dataset, fetched, outcome>>
normVars == <<record, companyOut, personOut>>
vars == <<queueVars, sinkVars, scrapePc, callerVars, scraperVars, normVars>>

----------------------------------------------------------------------------
(* Bounds of the model *)

\* total number of enqueue calls in one behaviour
MaxEnq == 3
\* total number of direct sink calls in one behaviour
MaxDeliver == 3
\* largest timeout_s passed to run_sales_nav_scraper, in clock ticks
MaxTimeout == 2
\* largest number of items in the run's dataset, and largest max_items passed
MaxDataset == 2

\* the producer threads, and the worker threads start_worker can start: two of
\* each is the least that lets enqueues overlap and workers compete
Producers == {1, 2}
Workers == {1, 2}

----------------------------------------------------------------------------
(* Python values: str operations on token strings *)

\* s.strip(chars) on a token string
RECURSIVE LStrip(_, _)
LStrip(s, chars) ==
    IF s # << >> /\ Head(s) \in chars THEN LStrip(Tail(s), chars) ELSE s

RECURSIVE RStrip(_, _)
RStrip(s, chars) ==
    IF s # << >> /\ s[Len(s)] \in chars THEN RStrip(SubSeq(s, 1, Len(s) - 1), chars) ELSE s

Strip(s, chars) == RStrip(LStrip(s, chars), chars)

Whitespace == {" "}

\* index of the first token of s that is in chars, 0 when there is none
FirstIn(s, chars) ==
    IF \E i \in 1..Len(s) : s[i] \in chars
    THEN CHOOSE i \in 1..Len(s) : s[i] \in chars /\ \A j \in 1..(i - 1) : s[j] \notin chars
    ELSE 0

\* s.split(sep): the list of the pieces between the separators
RECURSIVE Split(_, _)
Split(s, sep) ==
    LET i == FirstIn(s, {sep})
    IN IF i = 0 THEN <<s>>
       ELSE <<SubSeq(s, 1, i - 1)>> \o Split(SubSeq(s, i + 1, Len(s)), sep)

\* "linkedin.com" in tok, for the host tokens of the model
HasLinkedin(tok) == tok \in {"www.linkedin.com", "linkedin.com", "uk.linkedin.com"}

Delims == {"/", ":", "?", "#", " "}

\* urllib.parse.urlparse: the netloc and the path of a url
urlparse(url) ==
    LET c == FirstIn(url, {":"})
        hasScheme == c > 1 /\ \A j \in 1..(c - 1) : url[j] \notin Delims
        rest == IF hasScheme THEN SubSeq(url, c + 1, Len(url)) ELSE url
        hasNetloc == Len(rest) >= 2 /\ rest[1] = "/" /\ rest[2] = "/"
        afterSl == IF hasNetloc THEN SubSeq(rest, 3, Len(rest)) ELSE rest
        e == FirstIn(afterSl, {"/", "?", "#"})
        netloc == IF ~hasNetloc THEN << >>
                  ELSE IF e = 0 THEN afterSl ELSE SubSeq(afterSl, 1, e - 1)
        tail == IF ~hasNetloc THEN rest
                ELSE IF e = 0 THEN << >> ELSE SubSeq(afterSl, e, Len(afterSl))
        q == FirstIn(tail, {"?", "#"})
        path == IF q = 0 THEN tail ELSE SubSeq(tail, 1, q - 1)
    IN [netloc |-> netloc, path |-> path]

SalesPrefix == <<"https", ":", "/", "/", "www.linkedin.com", "/", "sales", "/", "company", "/">>

\* helper_functions.linkedin_to_sales_company_url: every ValueError raised in
\* the try block is caught and turned into "".  Its callers pass the str that
\* get_value returns, so isinstance(company_url, str) holds.
linkedin_to_sales_company_url(company_url) ==
    IF Strip(company_url, Whitespace) = << >> THEN << >>
    ELSE
      LET u == Strip(company_url, Whitespace)
          parsed == urlparse(u)
          path == Strip(parsed.path, {"/"})
          parts == Split(path, "/")
      IN IF ~(\E i \in 1..Len(parsed.netloc) : HasLinkedin(parsed.netloc[i])) THEN << >>
         ELSE IF Len(parts) < 2 \/ parts[1] # <<"company">> THEN << >>
         ELSE SalesPrefix \o parts[2] \o <<"/">>

\* bool(result.get(key)): the key is present and its value is not "" (a key
\* whose value is None reads as an absent key)
Truthy(result, key) == key \in DOMAIN result /\ result[key] # << >>

\* get_value of convert_json_to_csv_row: the first key whose value is truthy
RECURSIVE get_value(_, _)
get_value(result, keys) ==
    IF keys = << >> THEN << >>
    ELSE IF Truthy(result, Head(keys)) THEN result[Head(keys)]
    ELSE get_value(result, Tail(keys))

CompanyHeader ==
    << <<"Company Name">>, <<"Linkedin URL">>, <<"Sales Navigator URL">>, <<"Website">>,
       <<"Employee Count">>, <<"Overview">>, <<"Headquarters">>, <<"Total Jobs">>,
       <<"Job Titles">>, <<"Frequent Jobs">> >>

\* helper_functions.convert_json_to_csv_row: [header, row]
convert_json_to_csv_row(result) ==
    << CompanyHeader,
       << get_value(result, <<"company_name", "companyName">>),
          get_value(result, <<"company_linkedin", "companyLinkedinUrl">>),
          linkedin_to_sales_company_url(
              get_value(result, <<"company_linkedin", "companyLinkedinUrl">>)),
          << >>, << >>, << >>, << >>, << >>, << >>, << >> >> >>

\* the two company records of the end-to-end scenario
Acme == [company_name |-> <<"Acme">>,
         company_linkedin |-> <<"https", ":", "/", "/", "www.linkedin.com", "/",
                                "company", "/", "123", "/">>]
Globex == [company_name |-> <<"Globex">>]

Records == {Acme, Globex}

\* helper_functions.convert_multiple_json: one [header, row] per result
convert_multiple_json(results) ==
    [k \in 1..Len(results) |-> convert_json_to_csv_row(results[k])]

\* the scrape results of the model: the two records in turn.  The queue never
\* looks inside a batch; each upload is told apart by its id.
Results == [k \in 1..MaxEnq |-> IF k % 2 = 1 THEN Acme ELSE Globex]

\* get_value of convert_person_json_to_csv_row: the first key whose value is
\* not None and not blank after strip(), stripped
RECURSIVE person_get_value(_, _)
person_get_value(result, keys) ==
    IF keys = << >> THEN << >>
    ELSE IF Head(keys) \in DOMAIN result /\ Strip(result[Head(keys)], Whitespace) # << >>
         THEN Strip(result[Head(keys)], Whitespace)
    ELSE person_get_value(result, Tail(keys))

\* "/sales/company/" in u
HasSalesCompany(u) ==
    \E i \in 1..(Len(u) - 4) : SubSeq(u, i, i + 4) = <<"/", "sales", "/", "company", "/">>

\* tok.endswith("linkedin.com"), for the host tokens of the model
EndsWithLinkedin(tok) == tok \in {"www.linkedin.com", "linkedin.com", "uk.linkedin.com"}

\* u[i:].startswith("linkedin.com/company/"), up to the characters of the
\* token u[i] before "linkedin.com"
LinkedinCompanyAt(u, i) ==
    /\ i >= 1 /\ i + 3 <= Len(u)
    /\ EndsWithLinkedin(u[i])
    /\ u[i + 1] = "/" /\ u[i + 2] = "company" /\ u[i + 3] = "/"

\* u.replace("linkedin.com/company/", "linkedin.com/sales/company/")
RECURSIVE ReplaceLinkedinCompany(_)
ReplaceLinkedinCompany(u) ==
    IF u = << >> THEN << >>
    ELSE IF LinkedinCompanyAt(u, 1)
         THEN <<u[1], "/", "sales", "/", "company", "/">>
                  \o ReplaceLinkedinCompany(SubSeq(u, 5, Len(u)))
    ELSE <<Head(u)>> \o ReplaceLinkedinCompany(Tail(u))

\* the linkedin_to_sales_company_url nested in convert_person_json_to_csv_row,
\* lines 152-165: it shadows the module-level function of the same name
person_linkedin_to_sales_company_url(company_linkedin_url) ==
    IF company_linkedin_url = << >> THEN << >>
    ELSE
      LET u == Strip(company_linkedin_url, Whitespace)
          v == IF u # << >> /\ u[Len(u)] = "/" THEN u ELSE Append(u, "/")
      IN IF HasSalesCompany(u) THEN u
         ELSE IF \E i \in 1..Len(v) : LinkedinCompanyAt(v, i) THEN ReplaceLinkedinCompany(v)
         ELSE << >>

PersonHeader ==
    << <<"First Name">>, <<"Last Name">>, <<"Full Name">>, <<"Designation">>, <<"Headline">>,
       <<"Location">>, <<"Industry">>, <<"Company Name">>, <<"Company Linkedin URL">>,
       <<"Company Sales Navigator URL">>, <<"Lead (Sales) URL">>, <<"Picture URL">>,
       <<"Email">>, <<"Scraped At">> >>

\* helper_functions.convert_person_json_to_csv_row: [header, row]
convert_person_json_to_csv_row(result) ==
    LET company_linkedin == person_get_value(result, <<"company_linkedin", "companyLinkedinUrl">>)
        company_sales_url == person_linkedin_to_sales_company_url(company_linkedin)
    IN << PersonHeader,
          << person_get_value(result, <<"employee_first_name", "firstName">>),
             person_get_value(result, <<"employee_last_name", "lastName">>),
             person_get_value(result, <<"employee_full_name", "fullName", "name">>),
             person_get_value(result, <<"employee_experience_title", "title">>),
             person_get_value(result, <<"employee_linkedin_headline", "headline">>),
             person_get_value(result, <<"employee_location", "location">>),
             person_get_value(result, <<"company_industry">>),
             person_get_value(result, <<"company_name", "companyName", "company">>),
             company_linkedin,
             company_sales_url,
             person_get_value(result, <<"employee_linkedin", "linkedinUrl", "profileUrl">>),
             person_get_value(result, <<"pictureUrl">>),
             person_get_value(result, <<"employee_email">>),
             person_get_value(result, <<"scrapedAt">>) >> >>

\* helper_functions.convert_multiple_person_json: one [header, row] per result
convert_multiple_person_json(results) ==
    [k \in 1..Len(results) |-> convert_person_json_to_csv_row(results[k])]

----------------------------------------------------------------------------
(* google_spread_sheet.py: the spreadsheet sink *)

SheetId == "sheet-1"
TabNames == {"companies", "leads"}

\* ws.append_row(row) on tab
AppendRow(sh, tab, row) ==
    [sh EXCEPT ![tab] = [exists |-> TRUE, rows |-> Append(sh[tab].rows, row)]]

\* a sink whose header write has slipped out of the except branch: the header
\* is appended on every call
SinkHeaderEveryCall(args, sh) ==
    IF Len(args) # 3 THEN [raised |-> "TypeError", sheet |-> sh, log |-> << >>]
    ELSE
      LET tab == args[2]
          rows == args[3]
          found == sh[tab].exists
          created == [sh EXCEPT ![tab] = [exists |-> TRUE, rows |-> << >>]]
          logC == IF found THEN << >>
                  ELSE <<[op |-> "add_worksheet", tab |-> tab, row |-> << >>]>>
          sh1 == AppendRow(IF found THEN sh ELSE created, tab, rows[1])
          log1 == Append(logC, [op |-> "append_row", tab |-> tab, row |-> rows[1]])
      IN [raised |-> "",
          sheet |-> AppendRow(sh1, tab, rows[2]),
          log |-> Append(log1, [op |-> "append_row", tab |-> tab, row |-> rows[2]])]

\* append_or_create_tab_by_id(sheet_id, sheet_name, rows) called with the
\* positional arguments args on the spreadsheet sh: what it raises ("" when it
\* returns), the spreadsheet afterwards, and the gspread calls it made.
\* A call that does not supply all three parameters raises TypeError before
\* the body runs.
append_or_create_tab_by_id(args, sh) ==
    IF Len(args) # 3 THEN [raised |-> "TypeError", sheet |-> sh, log |-> << >>]
    ELSE
      LET tab == args[2]
          rows == args[3]
          found == sh[tab].exists
          \* except WorksheetNotFound: add_worksheet, then append_row(rows[0])
          created == [sh EXCEPT ![tab] = [exists |-> TRUE, rows |-> << >>]]
          logC == <<[op |-> "add_worksheet", tab |-> tab, row |-> << >>]>>
          sh1 == IF found THEN sh
                 ELSE IF Len(rows) < 1 THEN created
                 ELSE AppendRow(created, tab, rows[1])
          log1 == IF found THEN << >>
                  ELSE IF Len(rows) < 1 THEN logC
                  ELSE Append(logC, [op |-> "append_row", tab |-> tab, row |-> rows[1]])
      IN IF ~found /\ Len(rows) < 1
           THEN [raised |-> "IndexError", sheet |-> sh1, log |-> log1]
         ELSE IF Len(rows) = 0
           THEN [raised |-> "", sheet |-> sh1, log |-> log1]
         ELSE IF Len(rows) < 2
           THEN [raised |-> "IndexError", sheet |-> sh1, log |-> log1]
         ELSE [raised |-> "",
               sheet |-> AppendRow(sh1, tab, rows[2]),
               log |-> Append(log1, [op |-> "append_row", tab |-> tab, row |-> rows[2]])]

----------------------------------------------------------------------------
(* google_spread_sheet_queue.py: class google_sheets_queue *)

NoItem == [id |-> 0, rows |-> << >>]

\* google_sheets_queue(*args): __init__(self, sheet_name) takes one argument
google_sheets_queue(args) ==
    IF Len(args) # 1
    THEN [raised |-> "TypeError", items |-> << >>, sheet_name |-> "", is_dequeue_safe |-> TRUE]
    ELSE [raised |-> "", items |-> << >>, sheet_name |-> args[1], is_dequeue_safe |-> TRUE]

is_empty(its) == Len(its) = 0

\* a pop that takes the newest entry, list.pop(), instead of the oldest
ListPopLast(its) ==
    IF Len(its) = 0 THEN [raised |-> "IndexError", value |-> NoItem, items |-> its]
    ELSE [raised |-> "", value |-> its[Len(its)], items |-> SubSeq(its, 1, Len(its) - 1)]

\* a dequeue that reads the head, as peek does, and leaves it in the list
ListPeek0(its) ==
    IF Len(its) = 0 THEN [raised |-> "IndexError", value |-> NoItem, items |-> its]
    ELSE [raised |-> "", value |-> Head(its), items |-> its]

\* list.pop(0): IndexError on an empty list
ListPop0(its) ==
    IF Len(its) = 0 THEN [raised |-> "IndexError", value |-> NoItem, items |-> its]
    ELSE [raised |-> "", value |-> Head(its), items |-> Tail(its)]

\* an enqueue that waits until no worker is inside the sink call or asleep
EnqueueL22Waits(p) ==
    /\ \A w \in Workers : wPc[w] \notin {"l45", "l47", "l49"}
    /\ prodPc[p] = "idle"
    /\ nextId < MaxEnq
    /\ prodItem' = [prodItem EXCEPT ![p] = [id |-> nextId + 1, rows |-> csv_data[nextId + 1]]]
    /\ nextId' = nextId + 1
    /\ is_dequeue_safe' = FALSE
    /\ prodPc' = [prodPc EXCEPT ![p] = "l23"]
    /\ UNCHANGED <<items, sheet_name, csv_data, wPc, wItem, appended, handed, failed, failSeen>>
    /\ UNCHANGED <<sinkVars, scrapePc, callerVars, scraperVars, normVars>>

\* One enqueue call by producer thread p, statement by statement.  The k-th
\* call carries the k-th batch of csv_data, as in the drivers' upload loop.
\* line 22: self.is_dequeue_safe = False
EnqueueL22(p) ==
    /\ prodPc[p] = "idle"
    /\ nextId < MaxEnq
    /\ prodItem' = [prodItem EXCEPT ![p] = [id |-> nextId + 1, rows |-> csv_data[nextId + 1]]]
    /\ nextId' = nextId + 1
    /\ is_dequeue_safe' = FALSE
    /\ prodPc' = [prodPc EXCEPT ![p] = "l23"]
    /\ UNCHANGED <<items, sheet_name, csv_data, wPc, wItem, appended, handed, failed, failSeen>>
    /\ UNCHANGED <<sinkVars, scrapePc, callerVars, scraperVars, normVars>>

\* line 23: self.items.append(item)
EnqueueL23(p) ==
    /\ prodPc[p] = "l23"
    /\ items' = Append(items, prodItem[p])
    /\ appended' = Append(appended, prodItem[p].id)
    /\ prodPc' = [prodPc EXCEPT ![p] = "l24"]
    /\ UNCHANGED <<is_dequeue_safe, sheet_name, csv_data, prodItem, wPc, wItem, nextId, handed, failed, failSeen>>
    /\ UNCHANGED <<sinkVars, scrapePc, callerVars, scraperVars, normVars>>

\* line 24: self.is_dequeue_safe = True
EnqueueL24(p) ==
    /\ prodPc[p] = "l24"
    /\ is_dequeue_safe' = TRUE
    /\ prodPc' = [prodPc EXCEPT ![p] = "idle"]
    /\ prodItem' = [prodItem EXCEPT ![p] = NoItem]
    /\ UNCHANGED <<items, sheet_name, csv_data, wPc, wItem, nextId, appended, handed, failed, failSeen>>
    /\ UNCHANGED <<sinkVars, scrapePc, callerVars, scraperVars, normVars>>

\* start_worker: a new daemon thread enters worker().  Threads are numbered in
\* the order they are started.
StartWorker(w) ==
    /\ wPc[w] = "none"
    /\ \A v \in Workers : v < w => wPc[v] # "none"
    /\ wPc' = [wPc EXCEPT ![w] = "l42"]
    /\ UNCHANGED <<items, is_dequeue_safe, sheet_name, csv_data, prodPc, prodItem, wItem,
                   nextId, appended, handed, failed, failSeen>>
    /\ UNCHANGED <<sinkVars, scrapePc, callerVars, scraperVars, normVars>>

WorkerGoto(w, label) ==
    /\ wPc' = [wPc EXCEPT ![w] = label]
    /\ UNCHANGED <<items, is_dequeue_safe, sheet_name, csv_data, prodPc, prodItem, wItem,
                   nextId, appended, handed, failed, failSeen>>
    /\ UNCHANGED <<sinkVars, scrapePc, callerVars, scraperVars, normVars>>

\* line 42, left operand: not self.is_empty()
WorkerL42(w) ==
    /\ wPc[w] = "l42"
    /\ WorkerGoto(w, IF ~is_empty(items) THEN "l42b" ELSE "l47")

\* line 42, right operand: self.is_dequeue_safe
WorkerL42b(w) ==
    /\ wPc[w] = "l42b"
    /\ WorkerGoto(w, IF is_dequeue_safe THEN "l27" ELSE "l47")

\* line 43 -> dequeue, line 27: if not self.is_empty(), else line 29 raises
WorkerL27(w) ==
    /\ wPc[w] = "l27"
    /\ WorkerGoto(w, IF ~is_empty(items) THEN "l28" ELSE "l49")

\* line 28: return self.items.pop(0)
WorkerL28(w) ==
    /\ wPc[w] = "l28"
    /\ LET r == ListPop0(items)
       IN /\ items' = r.items
          /\ wItem' = [wItem EXCEPT ![w] = r.value]
          /\ wPc' = [wPc EXCEPT ![w] = IF r.raised = "" THEN "l45" ELSE "l49"]
    /\ UNCHANGED <<is_dequeue_safe, sheet_name, csv_data, prodPc, prodItem, nextId, appended, handed, failed, failSeen>>
    /\ UNCHANGED <<sinkVars, scrapePc, callerVars, scraperVars, normVars>>

\* the positional arguments of the call on line 45
WorkerSinkArgs(w) == <<sheet_name, wItem[w].rows>>

\* line 45: google_spread_sheet.append_or_create_tab_by_id(self.sheet_name, item)
WorkerL45(w) ==
    /\ wPc[w] = "l45"
    /\ LET r == append_or_create_tab_by_id(WorkerSinkArgs(w), sheet)
       IN /\ sheet' = r.sheet
          /\ apiLog' = apiLog \o r.log
          /\ sinkCalls' = IF r.raised = "TypeError" THEN sinkCalls
                          ELSE Append(sinkCalls,
                                      [tab |-> sheet_name,
                                       existed |-> sheet[sheet_name].exists,
                                       raised |-> r.raised,
                                       rows |-> wItem[w].rows])
          /\ handed' = Append(handed, wItem[w])
          /\ failed' = IF r.raised = "" THEN failed ELSE failed \cup {wItem[w].id}
          /\ failSeen' = IF r.raised # "" /\ failSeen < 0 THEN nextId ELSE failSeen
          /\ wPc' = [wPc EXCEPT ![w] = IF r.raised = "" THEN "l42" ELSE "l49"]
    /\ wItem' = [wItem EXCEPT ![w] = NoItem]
    /\ UNCHANGED <<items, is_dequeue_safe, sheet_name, csv_data, prodPc, prodItem, nextId, appended>>
    /\ UNCHANGED <<scrapePc, callerVars, scraperVars, normVars>>

\* line 47: time.sleep(10) on the idle branch
WorkerL47(w) ==
    /\ wPc[w] = "l47"
    /\ WorkerGoto(w, "l42")

\* a worker without the try/except: the exception ends the thread
WorkerL49Dies(w) ==
    /\ wPc[w] = "l49"
    /\ WorkerGoto(w, "dead")

\* lines 48-50: except Exception: print, time.sleep(10), back to the loop
WorkerL49(w) ==
    /\ wPc[w] = "l49"
    /\ WorkerGoto(w, "l42")

\* helper_functions.scrape_industry, line 225:
\* sheets_queue = google_sheets_queue(sheet_id, page_name)
ScrapeIndustryL225 ==
    /\ scrapePc = "l225"
    /\ scrapePc' = IF google_sheets_queue(<<SheetId, "companies">>).raised = ""
                   THEN "l226" ELSE "TypeError"
    /\ UNCHANGED <<queueVars, sinkVars, callerVars, scraperVars, normVars>>

----------------------------------------------------------------------------
(* Initial states *)

\* what a method call gave its caller: the exception raised ("" for none),
\* the entry returned, the integer returned, the boolean returned
NoRet == [raised |-> "", value |-> NoItem, n |-> 0, b |-> FALSE]

InitQueue ==
    LET q == google_sheets_queue(<<"companies">>)
    IN /\ items = q.items
       /\ is_dequeue_safe = q.is_dequeue_safe
       /\ sheet_name = q.sheet_name
       /\ csv_data = convert_multiple_json(Results)
       /\ prodPc = [p \in Producers |-> "idle"]
       /\ prodItem = [p \in Producers |-> NoItem]
       /\ wPc = [w \in Workers |-> "none"]
       /\ wItem = [w \in Workers |-> NoItem]
       /\ nextId = 0
       /\ appended = << >>
       /\ handed = << >>
       /\ failed = {}
       /\ failSeen = -1
       /\ scrapePc = "l225"

InitSink ==
    /\ sheet = [t \in TabNames |-> [exists |-> FALSE, rows |-> << >>]]
    /\ apiLog = << >>
    /\ sinkCalls = << >>

InitCaller ==
    /\ lastOp = "none"
    /\ ret = NoRet

InitScraper ==
    /\ runPc = "idle"
    /\ env = [apify_token |-> TRUE, cookieString |-> TRUE]
    /\ remote = "READY"
    /\ clock = 0
    /\ status = "unset"
    /\ params = [timeout_s |-> 0, max_items_given |-> FALSE, max_items |-> 0]
    /\ dataset = 0
    /\ fetched = 0
    /\ outcome = "none"

\* no record has been normalized
NoOut == << >>

InitNorm ==
    /\ record = Globex
    /\ companyOut = NoOut
    /\ personOut = NoOut

Init == InitQueue /\ InitSink /\ InitCaller /\ InitScraper /\ InitNorm

Next ==
    \/ \E p \in Producers : EnqueueL22(p)
    \/ \E p \in Producers : EnqueueL23(p)
    \/ \E p \in Producers : EnqueueL24(p)
    \/ \E w \in Workers : StartWorker(w)
    \/ \E w \in Workers : WorkerL42(w)
    \/ \E w \in Workers : WorkerL42b(w)
    \/ \E w \in Workers : WorkerL27(w)
    \/ \E w \in Workers : WorkerL28(w)
    \/ \E w \in Workers : WorkerL45(w)
    \/ \E w \in Workers : WorkerL47(w)
    \/ \E w \in Workers : WorkerL49(w)

Spec == Init /\ [][Next]_vars

\* the worker thread is scheduled while it runs; a producer inside enqueue
\* finishes the call.  Starting a worker and starting an enqueue are up to the
\* caller and get no fairness.
WorkerStep(w) ==
    \/ WorkerL42(w) \/ WorkerL42b(w) \/ WorkerL27(w) \/ WorkerL28(w)
    \/ WorkerL45(w) \/ WorkerL47(w) \/ WorkerL49(w)

FairSpec ==
    /\ Spec
    /\ \A w \in Workers : WF_vars(WorkerStep(w))
    /\ \A p \in Producers : WF_vars(EnqueueL23(p) \/ EnqueueL24(p))

----------------------------------------------------------------------------
(* Properties of the upload queue *)

Ids(entries) == [k \in 1..Len(entries) |-> entries[k].id]
Range(f) == {f[k] : k \in DOMAIN f}

Started == {w \in Workers : wPc[w] # "none"}
InFlight == {w \in Workers : wPc[w] = "l45"}
\* an enqueue call that has run its first statement and not yet its last
InEnqueue(p) == prodPc[p] \in {"l23", "l24"}

\* C1: FIFO delivery.  With a single worker on the queue, the entries passed
\* to the sink so far, then the entry the worker holds, then the pending
\* entries are exactly the enqueued entries in the order they were appended:
\* the order of the sink calls is the order of the enqueues.
C1_FifoDelivery ==
    Cardinality(Started) <= 1 =>
        LET held == IF InFlight = {} THEN << >>
                    ELSE <<wItem[CHOOSE w \in InFlight : TRUE].id>>
        IN Ids(handed) \o held \o Ids(items) = appended

\* C1 witness: one worker has passed three batches to the sink
C1_Witness ==
    /\ Cardinality(Started) = 1
    /\ Len(handed) = 3
    /\ Ids(handed) = appended

\* nothing is pending, nobody is enqueueing, and no worker is between the
\* line-42 test and the end of its sink call
Quiescent ==
    /\ items = << >>
    /\ \A p \in Producers : prodPc[p] = "idle"
    /\ \A w \in Workers : wPc[w] \in {"none", "l42", "l47", "l49"}

DataRowsOf(tab) ==
    IF sheet[tab].exists /\ Len(sheet[tab].rows) > 0 THEN Tail(sheet[tab].rows) ELSE << >>

\* C2: eventual delivery, as the final result.  Once a worker runs and the
\* queue has drained, the data row of every enqueued batch is in the target tab.
C2_EventualDelivery ==
    (Started # {} /\ Quiescent) =>
        \A k \in 1..Len(handed) : handed[k].rows[2] \in Range(DataRowsOf(sheet_name))

\* C3: mutation exclusivity.  No step shortens the pending sequence while an
\* enqueue call is between its first statement and its last.
C3_MutationExclusivity ==
    [][(\E p \in Producers : InEnqueue(p)) => Len(items') >= Len(items)]_vars

\* C4: failure isolation.  A started worker always has a next step (the thread
\* never ends on an error), and once a sink call has raised the worker keeps
\* draining: again and again every batch appended so far, those enqueued
\* after the failure included, has been dequeued and passed to the sink.
C4_FailureIsolation ==
    /\ [](\A w \in Started : ENABLED WorkerStep(w))
    /\ []<>(failed # {} => Range(appended) \subseteq Range(Ids(handed)))

\* C4 witness: a batch whose enqueue began after a sink call raised has been
\* passed to the sink
C4_Witness ==
    /\ failed # {}
    /\ \E k \in 1..Len(handed) : handed[k].id > failSeen

\* C5: at-most-once hand-off.  No entry is passed to the sink twice, and an
\* entry that was passed (whether or not the call raised) is neither pending
\* nor held by a worker again; this with one worker or two.
C5_AtMostOnce ==
    /\ \A j, k \in 1..Len(handed) : handed[j].id = handed[k].id => j = k
    /\ \A k \in 1..Len(items) : items[k].id \notin Range(Ids(handed))
    /\ \A w \in InFlight : wItem[w].id \notin Range(Ids(handed))
    /\ \A v, w \in InFlight : wItem[v].id = wItem[w].id => v = w

\* C5 witness: two workers compete, a sink call has raised and a later batch
\* has been passed too
C5_Witness ==
    /\ Cardinality(Started) = 2
    /\ failed # {}
    /\ Len(handed) >= 2

SalesUrl123 ==
    <<"https", ":", "/", "/", "www.linkedin.com", "/", "sales", "/", "company", "/", "123", "/">>

\* C8: end to end.  When the Acme batch and then the Globex batch have been
\* enqueued and a worker has drained the queue, tab "companies" holds exactly
\* two data rows, Acme's with the Sales Navigator URL of company 123 and then
\* Globex's with that column empty.
C8_EndToEnd ==
    (/\ Started # {}
     /\ Quiescent
     /\ appended = <<1, 2>>
     /\ Len(handed) = 2
     /\ \E k \in 1..2 : handed[k] = [id |-> 1, rows |-> convert_json_to_csv_row(Acme)]
     /\ \E k \in 1..2 : handed[k] = [id |-> 2, rows |-> convert_json_to_csv_row(Globex)])
    =>
        LET rows == DataRowsOf("companies")
        IN /\ Len(rows) = 2
           /\ rows[1][1] = <<"Acme">> /\ rows[1][3] = SalesUrl123
           /\ rows[2][1] = <<"Globex">> /\ rows[2][3] = << >>

\* C9: non-blocking enqueue.  Whatever the workers are doing, the next
\* statement of every enqueue call can run; an enqueue step makes no sink call,
\* and the append puts the batch at the tail of the pending sequence.
C9_NonBlockingEnqueue ==
    /\ [](\A p \in Producers :
            /\ (prodPc[p] = "idle" /\ nextId < MaxEnq) => ENABLED EnqueueL22(p)
            /\ prodPc[p] = "l23" => ENABLED EnqueueL23(p)
            /\ prodPc[p] = "l24" => ENABLED EnqueueL24(p))
    /\ [][\A p \in Producers :
            /\ prodPc'[p] # prodPc[p] => UNCHANGED <<sinkVars, handed>>
            /\ (prodPc[p] = "l23" /\ prodPc'[p] = "l24")
                  => items' = Append(items, prodItem[p])]_vars

\* C9 witness: an enqueue has run to completion while a worker was inside the
\* sink call or asleep in the backoff
C9_Witness ==
    /\ \E w \in Workers : wPc[w] \in {"l45", "l47", "l49"}
    /\ \E p \in Producers : prodPc[p] = "l24"
    /\ Len(items) >= 1

\* C12: the mutation mark covers the whole append.  With any number of
\* producers, is_dequeue_safe is False whenever some enqueue call has run its
\* first statement and not yet its append, and True whenever no enqueue call
\* is in progress.
C12_MutationMark ==
    /\ (\E p \in Producers : prodPc[p] = "l23") => ~is_dequeue_safe
    /\ (\A p \in Producers : ~InEnqueue(p)) => is_dequeue_safe

----------------------------------------------------------------------------
(* The queue's methods called one after another by a single thread *)

\* a dequeue that returns nothing on an empty queue instead of raising
dequeueNoRaise(its) ==
    IF ~is_empty(its) THEN ListPop0(its)
    ELSE [raised |-> "", value |-> NoItem, items |-> its]

\* dequeue, lines 26-29
dequeue(its) ==
    IF ~is_empty(its) THEN ListPop0(its)
    ELSE [raised |-> "IndexError", value |-> NoItem, items |-> its]

\* peek, lines 34-37
peek(its) ==
    IF ~is_empty(its) THEN [raised |-> "", value |-> its[1], items |-> its]
    ELSE [raised |-> "IndexError", value |-> NoItem, items |-> its]

\* size, lines 31-32
size(its) == Len(its)

\* enqueue(item), lines 22-24 run without interruption
CallEnqueue ==
    /\ nextId < MaxEnq
    /\ \E r \in Records :
         items' = Append(items, [id |-> nextId + 1, rows |-> convert_json_to_csv_row(r)])
    /\ nextId' = nextId + 1
    /\ appended' = Append(appended, nextId + 1)
    /\ is_dequeue_safe' = TRUE
    /\ lastOp' = "enqueue"
    /\ ret' = NoRet
    /\ UNCHANGED <<sheet_name, csv_data, prodPc, prodItem, wPc, wItem, handed, failed, failSeen>>
    /\ UNCHANGED <<sinkVars, scrapePc, scraperVars, normVars>>

CallDequeue ==
    /\ LET r == dequeue(items)
       IN /\ items' = r.items
          /\ ret' = [NoRet EXCEPT !.raised = r.raised, !.value = r.value]
    /\ lastOp' = "dequeue"
    /\ UNCHANGED <<is_dequeue_safe, sheet_name, csv_data, prodPc, prodItem, wPc, wItem,
                   nextId, appended, handed, failed, failSeen>>
    /\ UNCHANGED <<sinkVars, scrapePc, scraperVars, normVars>>

CallPeek ==
    /\ LET r == peek(items)
       IN /\ items' = r.items
          /\ ret' = [NoRet EXCEPT !.raised = r.raised, !.value = r.value]
    /\ lastOp' = "peek"
    /\ UNCHANGED <<is_dequeue_safe, sheet_name, csv_data, prodPc, prodItem, wPc, wItem,
                   nextId, appended, handed, failed, failSeen>>
    /\ UNCHANGED <<sinkVars, scrapePc, scraperVars, normVars>>

CallSize ==
    /\ ret' = [NoRet EXCEPT !.n = size(items)]
    /\ lastOp' = "size"
    /\ UNCHANGED <<queueVars, sinkVars, scrapePc, scraperVars, normVars>>

CallIsEmpty ==
    /\ ret' = [NoRet EXCEPT !.b = is_empty(items)]
    /\ lastOp' = "is_empty"
    /\ UNCHANGED <<queueVars, sinkVars, scrapePc, scraperVars, normVars>>

CallerNext ==
    \/ CallEnqueue
    \/ CallDequeue
    \/ CallPeek
    \/ CallSize
    \/ CallIsEmpty
    \/ ScrapeIndustryL225

CallerSpec == Init /\ [][CallerNext]_vars

\* a step that is a dequeue call (a dequeue that raises right after one that
\* raised changes nothing and is a stuttering step)
DequeueStep ==
    lastOp' = "dequeue" /\ <<lastOp, ret, items>>' # <<lastOp, ret, items>>

\* C6: empty-queue error.  A dequeue call raises IndexError exactly when the
\* pending sequence is empty; when it raises, the pending sequence and the
\* safety flag are unchanged; when it returns, it returns the head entry and
\* the pending sequence is the rest.
C6_EmptyQueueError ==
    [][DequeueStep =>
        /\ (ret'.raised = "IndexError") <=> (items = << >>)
        /\ ret'.raised \in {"", "IndexError"}
        /\ ret'.raised # "" => (items' = items /\ is_dequeue_safe' = is_dequeue_safe)
        /\ ret'.raised = "" => (ret'.value = Head(items) /\ items' = Tail(items))]_vars

\* C6 witness: after one enqueue and one dequeue, a second dequeue raised
C6_Witness ==
    /\ nextId = 1
    /\ lastOp = "dequeue"
    /\ ret.raised = "IndexError"
    /\ items = << >>

----------------------------------------------------------------------------
(* The sink called directly, one delivery after another *)

\* a tab that is there before the first delivery: its header row is in place
ExistingTab == [exists |-> TRUE, rows |-> <<CompanyHeader>>]
AbsentTab == [exists |-> FALSE, rows |-> << >>]

SinkInit ==
    /\ InitQueue /\ InitCaller /\ InitScraper /\ InitNorm
    /\ sheet \in [TabNames -> {AbsentTab, ExistingTab}]
    /\ apiLog = << >>
    /\ sinkCalls = << >>

\* append_or_create_tab_by_id(sheet_id, tab, batch) for a normalized record
Deliver(tab, batch) ==
    /\ Len(sinkCalls) < MaxDeliver
    /\ LET r == append_or_create_tab_by_id(<<SheetId, tab, batch>>, sheet)
       IN /\ sheet' = r.sheet
          /\ apiLog' = apiLog \o r.log
          /\ sinkCalls' = Append(sinkCalls,
                                 [tab |-> tab, existed |-> sheet[tab].exists,
                                  raised |-> r.raised, rows |-> batch])
    /\ UNCHANGED <<queueVars, scrapePc, callerVars, scraperVars, normVars>>

SinkNext == \E tab \in TabNames : \E r \in Records : Deliver(tab, convert_json_to_csv_row(r))

SinkSpec == SinkInit /\ [][SinkNext]_vars

CallsTo(tab) == SelectSeq(sinkCalls, LAMBDA c : c.tab = tab)

\* C7: tab-creation idempotence.  For every tab: if the first delivery to it
\* found it missing, add_worksheet was called exactly once for it and the
\* header was written exactly once over all deliveries, and the tab holds the
\* header followed by the data rows in delivery order; a delivery that found
\* the tab made no creation call and wrote no header, so a tab that was there
\* from the start has neither; and every delivery appended one data row.
C7_TabCreationIdempotence ==
    \A tab \in TabNames :
      LET calls == CallsTo(tab)
          adds == Len(SelectSeq(apiLog, LAMBDA e : e.op = "add_worksheet" /\ e.tab = tab))
          headers == Len(SelectSeq(apiLog, LAMBDA e : e.op = "append_row" /\ e.tab = tab
                                                        /\ e.row = CompanyHeader))
          data == SelectSeq(apiLog, LAMBDA e : e.op = "append_row" /\ e.tab = tab
                                                /\ e.row # CompanyHeader)
          missingCalls == Len(SelectSeq(calls, LAMBDA c : ~c.existed))
      IN /\ adds = missingCalls
         /\ headers = missingCalls
         /\ missingCalls <= 1
         /\ \A k \in 2..Len(calls) : calls[k].existed
         /\ Len(data) = Len(calls)
         /\ \A k \in 1..Len(calls) : data[k].row = calls[k].rows[2] /\ calls[k].raised = ""
         /\ (calls # << >>) =>
               sheet[tab] = [exists |-> TRUE,
                             rows |-> <<CompanyHeader>> \o [k \in 1..Len(data) |-> data[k].row]]

\* C7 witness: three deliveries to a tab that was missing at the first one
C7_Witness ==
    \E tab \in TabNames :
        /\ Len(CallsTo(tab)) = 3
        /\ ~CallsTo(tab)[1].existed
        /\ Len(sheet[tab].rows) = 4

----------------------------------------------------------------------------
(* apify_api.py: run_sales_nav_scraper *)

\* poll_interval_s, in clock ticks
PollInterval == 2

\* the clock stops counting once it is past every timeout_s of the model
MaxClock == MaxTimeout + PollInterval + 1

\* line 74
TerminalStatuses == {"SUCCEEDED", "FAILED", "TIMED-OUT", "ABORTED"}

\* lines 86-90: the length of items after the loop over a dataset of n items;
\* the test of max_items comes after the append
RECURSIVE IterateItems(_, _, _)
IterateItems(remaining, n, p) ==
    IF remaining = 0 THEN n
    ELSE IF p.max_items_given /\ n + 1 >= p.max_items THEN n + 1
    ELSE IterateItems(remaining - 1, n + 1, p)

ScraperInit ==
    /\ InitQueue /\ InitSink /\ InitCaller /\ InitNorm
    /\ runPc = "idle"
    /\ env \in [apify_token : BOOLEAN, cookieString : BOOLEAN]
    /\ remote = "READY"
    /\ clock = 0
    /\ status = "unset"
    /\ params \in {q \in [timeout_s : 0..MaxTimeout, max_items_given : BOOLEAN,
                         max_items : 0..MaxDataset] :
                     ~q.max_items_given => q.max_items = 0}
    /\ dataset \in 0..MaxDataset
    /\ fetched = 0
    /\ outcome = "none"

ScraperUnchanged == UNCHANGED <<queueVars, sinkVars, scrapePc, callerVars, normVars>>

\* lines 31-68: the environment checks, then the actor run is started and
\* start = time.time() is taken (the clock counts from there)
RunStart ==
    /\ runPc = "idle"
    /\ IF ~env.apify_token \/ ~env.cookieString
       THEN runPc' = "done" /\ outcome' = "ValueError"
       ELSE runPc' = "l72" /\ outcome' = outcome
    /\ UNCHANGED <<env, remote, clock, status, params, dataset, fetched>>
    /\ ScraperUnchanged

\* lines 72-73: info = client.run(run_id).get(); status = info.get("status")
RunGet ==
    /\ runPc = "l72"
    /\ status' = remote
    /\ runPc' = "l74"
    /\ UNCHANGED <<env, remote, clock, params, dataset, fetched, outcome>>
    /\ ScraperUnchanged

\* lines 74-77: break on a terminal status, else raise on the deadline
RunTest ==
    /\ runPc = "l74"
    /\ IF status \in TerminalStatuses THEN runPc' = "l80" /\ outcome' = outcome
       ELSE IF clock > params.timeout_s THEN runPc' = "done" /\ outcome' = "TimedOut"
       ELSE runPc' = "l78" /\ outcome' = outcome
    /\ UNCHANGED <<env, remote, clock, status, params, dataset, fetched>>
    /\ ScraperUnchanged

\* line 78: time.sleep(poll_interval_s)
RunSleep ==
    /\ runPc = "l78"
    /\ clock' = IF clock + PollInterval > MaxClock THEN MaxClock ELSE clock + PollInterval
    /\ runPc' = "l72"
    /\ UNCHANGED <<env, remote, status, params, dataset, fetched, outcome>>
    /\ ScraperUnchanged

\* lines 80-99: raise on a status other than SUCCEEDED, else read the dataset
\* and return (items, meta)
RunFinish ==
    /\ runPc = "l80"
    /\ runPc' = "done"
    /\ IF status # "SUCCEEDED"
       THEN outcome' = "RunEnded" /\ fetched' = fetched
       ELSE outcome' = "returned" /\ fetched' = IterateItems(dataset, 0, params)
    /\ UNCHANGED <<env, remote, clock, status, params, dataset>>
    /\ ScraperUnchanged

\* the remote run moves on by itself while the function polls
RemoteAdvance ==
    /\ runPc \in {"l72", "l74", "l78"}
    /\ \/ remote = "READY" /\ remote' = "RUNNING"
       \/ remote = "RUNNING" /\ remote' \in TerminalStatuses
    /\ UNCHANGED <<runPc, env, clock, status, params, dataset, fetched, outcome>>
    /\ ScraperUnchanged

\* time passes while the function waits for the API to answer
Tick ==
    /\ runPc \in {"l72", "l74"}
    /\ clock < MaxClock
    /\ clock' = clock + 1
    /\ UNCHANGED <<runPc, env, remote, status, params, dataset, fetched, outcome>>
    /\ ScraperUnchanged

ScraperNext ==
    \/ RunStart
    \/ RunGet
    \/ RunTest
    \/ RunSleep
    \/ RunFinish
    \/ RemoteAdvance
    \/ Tick

ScraperSpec == ScraperInit /\ [][ScraperNext]_vars

\* C10: scrape source outcome.  The call returns only after it saw the run
\* SUCCEEDED; it ends with the timeout error exactly when a poll past the
\* deadline saw no terminal status, and with the run-ended error exactly when
\* it saw FAILED, TIMED-OUT or ABORTED; and when max_items is given, the
\* number of records returned is at most max_items.
C10_ScrapeOutcome ==
    runPc = "done" =>
        /\ outcome = "returned" => status = "SUCCEEDED"
        /\ outcome = "TimedOut" <=>
              (status \notin TerminalStatuses \cup {"unset"} /\ clock > params.timeout_s)
        /\ outcome = "RunEnded" <=> status \in {"FAILED", "TIMED-OUT", "ABORTED"}
        /\ (outcome = "returned" /\ params.max_items_given) => fetched <= params.max_items

----------------------------------------------------------------------------
(* helper_functions.py: the row normalizer applied to one raw record *)

LinkedinCompany123 ==
    <<"https", ":", "/", "/", "www.linkedin.com", "/", "company", "/", "123">>

\* the company URLs of the model: well-formed ones (with and without the
\* trailing slash, with blanks around, with a query), and malformed ones
NormUrls ==
    { LinkedinCompany123,
      LinkedinCompany123 \o <<"/">>,
      <<" ">> \o LinkedinCompany123 \o <<"/", " ">>,
      LinkedinCompany123 \o <<"?", "trk=x">>,
      <<"https", ":", "/", "/", "www.linkedin.com", "/", "company", "/">>,
      <<"https", ":", "/", "/", "www.linkedin.com", "/", "company", "/", "/", "x">>,
      <<"https", ":", "/", "/", "www.linkedin.com", "/", "in", "/", "john", "/">>,
      <<"https", ":", "/", "/", "example.com", "/", "company", "/", "123", "/">>,
      <<"https", ":", "/", "/", "example.com", "/", "sales", "/", "company", "/", "1", "/">>,
      <<"linkedin.com", "/", "company", "/", "123">>,
      <<"not", " ", "a", " ", "url">>,
      <<" ">>,
      << >> }

\* a record with every key of the model; the raw records are its restrictions
FullRecord(url) ==
    [company_name |-> <<"Acme">>,
     companyName |-> <<"Acme", " ", "Inc">>,
     company_linkedin |-> url,
     companyLinkedinUrl |-> <<"https", ":", "/", "/", "uk.linkedin.com", "/", "company", "/",
                              "456", "/">>,
     firstName |-> <<" ", "Ann">>]

\* the raw records: every mapping over a subset of the keys, the empty mapping
\* included
NormRecords ==
    { [k \in K |-> FullRecord(url)[k]] : K \in SUBSET (DOMAIN FullRecord(<< >>)), url \in NormUrls }

NormInit ==
    /\ InitQueue /\ InitSink /\ InitCaller /\ InitScraper
    /\ record \in NormRecords
    /\ companyOut = NoOut
    /\ personOut = NoOut

\* convert_json_to_csv_row(record)
ConvertCompany ==
    /\ companyOut = NoOut
    /\ companyOut' = convert_json_to_csv_row(record)
    /\ UNCHANGED <<record, personOut>>
    /\ UNCHANGED <<queueVars, sinkVars, scrapePc, callerVars, scraperVars>>

\* convert_person_json_to_csv_row(record)
ConvertPerson ==
    /\ personOut = NoOut
    /\ personOut' = convert_person_json_to_csv_row(record)
    /\ UNCHANGED <<record, companyOut>>
    /\ UNCHANGED <<queueVars, sinkVars, scrapePc, callerVars, scraperVars>>

NormNext == ConvertCompany \/ ConvertPerson

NormSpec == NormInit /\ [][NormNext]_vars

\* a LinkedIn company profile URL: scheme://<host of linkedin.com>/company/<id>,
\* blanks around it aside; anything else is malformed
WellFormedCompanyUrl(url) ==
    LET u == Strip(url, Whitespace)
    IN /\ Len(u) >= 9
       /\ u[1] \in {"http", "https"}
       /\ SubSeq(u, 2, 4) = <<":", "/", "/">>
       /\ HasLinkedin(u[5])
       /\ SubSeq(u, 6, 8) = <<"/", "company", "/">>
       /\ u[9] \notin Delims

\* the record keys each column is read from, column by column
CompanyColumnKeys ==
    << {"company_name", "companyName"}, {"company_linkedin", "companyLinkedinUrl"},
       {"company_linkedin", "companyLinkedinUrl"}, {}, {}, {}, {}, {}, {}, {} >>

PersonColumnKeys ==
    << {"employee_first_name", "firstName"}, {"employee_last_name", "lastName"},
       {"employee_full_name", "fullName", "name"}, {"employee_experience_title", "title"},
       {"employee_linkedin_headline", "headline"}, {"employee_location", "location"},
       {"company_industry"}, {"company_name", "companyName", "company"},
       {"company_linkedin", "companyLinkedinUrl"}, {"company_linkedin", "companyLinkedinUrl"},
       {"employee_linkedin", "linkedinUrl", "profileUrl"}, {"pictureUrl"},
       {"employee_email"}, {"scrapedAt"} >>

\* out is [header, row] with n columns each, every column none of whose keys
\* is in the record is "", and the Sales Navigator URL column (salesCol) is ""
\* when the company URL column (urlCol) is "" or malformed
Degrades(out, n, columnKeys, urlCol, salesCol) ==
    /\ Len(out) = 2
    /\ Len(out[1]) = n
    /\ Len(out[2]) = n
    /\ \A c \in 1..n : (columnKeys[c] \cap DOMAIN record = {}) => out[2][c] = << >>
    /\ (out[2][urlCol] = << >> \/ ~WellFormedCompanyUrl(out[2][urlCol]))
          => out[2][salesCol] = << >>

\* C11: row normalizer degradation.  For every raw record, what
\* convert_json_to_csv_row returned is a 10-column header and a 10-column row,
\* what convert_person_json_to_csv_row returned is a 14-column header and a
\* 14-column row; a column whose keys are all absent from the record is "";
\* and the Sales Navigator URL column is "" whenever the company URL is
\* missing or malformed.
C11_NormalizerDegradation ==
    /\ companyOut # NoOut => Degrades(companyOut, 10, CompanyColumnKeys, 2, 3)
    /\ personOut # NoOut => Degrades(personOut, 14, PersonColumnKeys, 9, 10)

----------------------------------------------------------------------------
(* helper_functions.py: scrape_industry and scrape_personal from the line   *)
(* after the constructor call on.  The driver is the queue's one producer,  *)
(* thread 1; start_worker gives the queue its one worker, thread 1.         *)

\* two person records
Ann == [firstName |-> <<"Ann">>,
        company_linkedin |-> <<"https", ":", "/", "/", "www.linkedin.com", "/",
                               "company", "/", "123", "/">>]
Bob == [fullName |-> <<"Bob">>]

PersonResults == [k \in 1..MaxEnq |-> IF k % 2 = 1 THEN Ann ELSE Bob]

\* what run_sales_nav_scraper and the converter of the driver give: the
\* batches of scrape_industry for page "companies", of scrape_personal for
\* page "leads"; the scrape returns 0..MaxEnq records
DriverBatches(page_name) ==
    { IF page_name = "companies"
      THEN convert_multiple_json(SubSeq(Results, 1, n))
      ELSE convert_multiple_person_json(SubSeq(PersonResults, 1, n)) : n \in 0..MaxEnq }

\* the queue object as __init__ leaves it for page_name, the driver about to
\* run line 226 (255)
DriverInit ==
    /\ InitSink /\ InitCaller /\ InitScraper /\ InitNorm
    /\ \E page_name \in TabNames :
         LET q == google_sheets_queue(<<page_name>>)
         IN /\ items = q.items
            /\ is_dequeue_safe = q.is_dequeue_safe
            /\ sheet_name = q.sheet_name
    /\ csv_data = << >>
    /\ prodPc = [p \in Producers |-> "idle"]
    /\ prodItem = [p \in Producers |-> NoItem]
    /\ wPc = [w \in Workers |-> "none"]
    /\ wItem = [w \in Workers |-> NoItem]
    /\ nextId = 0
    /\ appended = << >>
    /\ handed = << >>
    /\ failed = {}
    /\ failSeen = -1
    /\ scrapePc = "l226"

\* line 226 (255): sheets_queue.start_worker()
DriverL226 ==
    /\ scrapePc = "l226"
    /\ wPc' = [wPc EXCEPT ![1] = "l42"]
    /\ scrapePc' = "l229"
    /\ UNCHANGED <<items, is_dequeue_safe, sheet_name, csv_data, prodPc, prodItem, wItem,
                   nextId, appended, handed, failed, failSeen>>
    /\ UNCHANGED <<sinkVars, callerVars, scraperVars, normVars>>

\* lines 229-232 (258-261): results, meta = run_sales_nav_scraper(...);
\* csv_data = convert_multiple_json(results)
DriverL229 ==
    /\ scrapePc = "l229"
    /\ csv_data' \in DriverBatches(sheet_name)
    /\ scrapePc' = "l239"
    /\ UNCHANGED <<items, is_dequeue_safe, sheet_name, prodPc, prodItem, wPc, wItem,
                   nextId, appended, handed, failed, failSeen>>
    /\ UNCHANGED <<sinkVars, callerVars, scraperVars, normVars>>

\* lines 239-240 (268-269): for data in csv_data: sheets_queue.enqueue(data),
\* the call entering enqueue at its line 22
DriverL240 ==
    /\ scrapePc = "l239"
    /\ nextId < Len(csv_data)
    /\ EnqueueL22(1)

\* line 243 (272): if sheets_queue.size() > 0, once the loop is over
DriverL243 ==
    /\ scrapePc = "l239"
    /\ prodPc[1] = "idle"
    /\ nextId = Len(csv_data)
    /\ scrapePc' = IF size(items) > 0 THEN "l244" ELSE "returned"
    /\ UNCHANGED <<queueVars, sinkVars, callerVars, scraperVars, normVars>>

\* line 244 (273): time.sleep(1), then the function returns
DriverL244 ==
    /\ scrapePc = "l244"
    /\ scrapePc' = "returned"
    /\ UNCHANGED <<queueVars, sinkVars, callerVars, scraperVars, normVars>>

DriverNext ==
    \/ DriverL226
    \/ DriverL229
    \/ DriverL240
    \/ EnqueueL23(1)
    \/ EnqueueL24(1)
    \/ DriverL243
    \/ DriverL244
    \/ WorkerL42(1)
    \/ WorkerL42b(1)
    \/ WorkerL27(1)
    \/ WorkerL28(1)
    \/ WorkerL45(1)
    \/ WorkerL47(1)
    \/ WorkerL49(1)

DriverSpec == DriverInit /\ [][DriverNext]_vars

====
